---- MODULE Spec2Model ----
\* Loquendon't: multi-voice text-to-speech pipeline (src/Loquendon't.py).
\* The module models the directive parser (parse_input_file), the voice
\* catalog (UnifiedTTSEngine), per-segment synthesis (synthesize_segment),
\* the job pipeline (process_and_concatenate) and the menu loop (main_menu).
EXTENDS Integers, Sequences, FiniteSets, TLC

\* ---------------------------------------------------------------------
\* Bounds of the model
\* ---------------------------------------------------------------------
\* longest input document, in characters, explored by SpecParse
MaxLen == 4
\* most voices the local (pyttsx3) enumeration appends to the catalog
MaxLocal == 1
\* most voices the remote (edge-tts) enumeration appends to the catalog
MaxRemote == 1
\* largest absolute value of an index handed to get_voice_by_index
MaxIndex == 3

\* ---------------------------------------------------------------------
\* Characters of a document.  "VOICE=" stands for the seven characters
\* "/voice=" in any letter case (the literal head of VOICE_CMD_PATTERN).
\* ---------------------------------------------------------------------
Digits == {"0", "1"}
Alphabet == {"a", "SP", "NL", "CR", "VOICE="} \cup Digits

IsDigit(c) == c \in Digits

\* str.strip() removes these
IsSpace(c) == c \in {"SP", "NL", "CR"}

DigitVal(c) == IF c = "1" THEN 1 ELSE 0

\* int(s) of a string of decimal digits
RECURSIVE IntOfDigits(_)
IntOfDigits(s) ==
  IF s = <<>> THEN 0
  ELSE 10 * IntOfDigits(SubSeq(s, 1, Len(s) - 1)) + DigitVal(s[Len(s)])

AllDigits(s) == s # <<>> /\ \A k \in 1..Len(s) : IsDigit(s[k])

\* f.read() of a file opened in text mode (line 180): "\r\n" and a lone
\* "\r" are read as "\n"
RECURSIVE ReadText(_)
ReadText(s) ==
  IF s = <<>> THEN <<>>
  ELSE IF s[1] = "CR"
       THEN <<"NL">> \o ReadText(IF Len(s) >= 2 /\ s[2] = "NL"
                                 THEN SubSeq(s, 3, Len(s)) ELSE Tail(s))
       ELSE <<s[1]>> \o ReadText(Tail(s))

\* content.replace('\n', ' ').replace('\r', '')
RECURSIVE Normalize(_)
Normalize(s) ==
  IF s = <<>> THEN <<>>
  ELSE LET c == s[1]
           rest == Normalize(Tail(s))
       IN IF c = "NL" THEN <<"SP">> \o rest
          ELSE IF c = "CR" THEN rest
          ELSE <<c>> \o rest

\* part.strip()
RECURSIVE LStrip(_)
LStrip(s) == IF s # <<>> /\ IsSpace(s[1]) THEN LStrip(Tail(s)) ELSE s

RECURSIVE RStrip(_)
RStrip(s) ==
  IF s # <<>> /\ IsSpace(s[Len(s)]) THEN RStrip(SubSeq(s, 1, Len(s) - 1)) ELSE s

Strip(s) == RStrip(LStrip(s))

\* last position of the run of digits of s that starts at position p
RECURSIVE DigitRunEnd(_, _)
DigitRunEnd(s, p) ==
  IF p + 1 <= Len(s) /\ IsDigit(s[p + 1]) THEN DigitRunEnd(s, p + 1) ELSE p

\* VOICE_CMD_PATTERN = /voice=(\d+) matches at position p of s
PatternMatchesAt(s, p) ==
  /\ p + 1 <= Len(s)
  /\ s[p] = "VOICE="
  /\ IsDigit(s[p + 1])

\* VOICE_CMD_PATTERN.split(content): the text between the matches with the
\* captured digit group of every match kept in between
RECURSIVE SplitFrom(_, _, _, _)
SplitFrom(s, p, chunk, acc) ==
  IF p > Len(s) THEN Append(acc, chunk)
  ELSE IF PatternMatchesAt(s, p)
       THEN LET e == DigitRunEnd(s, p + 1)
            IN SplitFrom(s, e + 1, <<>>, acc \o <<chunk, SubSeq(s, p + 1, e)>>)
       ELSE SplitFrom(s, p + 1, Append(chunk, s[p]), acc)

PatternSplit(s) == SplitFrom(s, 1, <<>>, <<>>)

\* VOICE_CMD_PATTERN.match(f"/voice={part}"): the pattern is matched at the
\* start of the literal "/voice=" followed by the part
MatchesVoiceCmd(part) == PatternMatchesAt(<<"VOICE=">> \o part, 1)

\* int(part) raises ValueError unless the part is a string of digits
IntRaises(part) == ~AllDigits(part)

\* which branch of the scan loop a stripped part takes (lines 202-223)
PartBranch(part) ==
  IF part = <<>> THEN "empty"
  ELSE IF MatchesVoiceCmd(part)
       THEN IF IntRaises(part) THEN "valueerror" ELSE "directive"
       ELSE "text"

Segment(text, voice_index) == [text |-> text, voice_index |-> voice_index]

\* the while loop of parse_input_file run to its end; positions are 1-based
\* here and 0-based in the source
RECURSIVE ParseLoopFrom(_, _, _, _)
ParseLoopFrom(ps, k, cur, segs) ==
  IF k > Len(ps) THEN segs
  ELSE LET part == Strip(ps[k])
           b == PartBranch(part)
       IN IF b = "directive"
          THEN ParseLoopFrom(ps, k + 1, IntOfDigits(part), segs)
          ELSE IF b = "text"
               THEN ParseLoopFrom(ps, k + 1, cur, Append(segs, Segment(part, cur)))
               ELSE ParseLoopFrom(ps, k + 1, cur, segs)

\* an input file: unreadable (open raises) or readable with its content
UnreadableFile == [readable |-> FALSE, content |-> <<>>]
ReadableFile(content) == [readable |-> TRUE, content |-> content]

parse_input_file(file, default_voice_index) ==
  IF ~file.readable THEN <<>>
  ELSE ParseLoopFrom(PatternSplit(Normalize(ReadText(file.content))), 1,
                     default_voice_index, <<>>)

\* ---------------------------------------------------------------------
\* State
\* ---------------------------------------------------------------------
VARIABLES
  pc,                    \* position of the program
  input_file,            \* the file at input_filepath
  default_voice_index,   \* parse_input_file's second argument
  parts,                 \* parse_input_file: result of the split
  parse_i,               \* parse_input_file: loop index i (1-based)
  current_voice_index,   \* parse_input_file: the cursor
  segments,              \* the list of segments
  unified_voices,        \* UnifiedTTSEngine.unified_voices
  pyttsx3_available,     \* UnifiedTTSEngine.pyttsx3_available
  init_warnings,         \* the backends whose enumeration printed its warning
  lookup,                \* the last call of get_voice_by_index made on the
                         \* engine object itself: its argument and its result
  open_sessions,         \* pyttsx3 engines initialised and not yet stopped
  dir_exists,            \* TEMP_DIR exists
  dir_files,             \* the files of TEMP_DIR: path -> content
  seg_i,                 \* process_and_concatenate: loop index i (0-based)
  temp_files,            \* process_and_concatenate: temp_files
  successful_segments,   \* process_and_concatenate: successful_segments
  results,               \* what each synthesize_segment call returned, in call order
  combined_audio,        \* process_and_concatenate: combined_audio
  stderr,                \* what the current job printed to sys.stderr, in order
  artifact,              \* the file at output_file
  job_outcome            \* how the current process_and_concatenate call ended

parseVars == <<input_file, default_voice_index, parts, parse_i,
               current_voice_index>>

catalogVars == <<unified_voices, pyttsx3_available, init_warnings, lookup>>

fsVars == <<dir_exists, dir_files>>

jobVars == <<seg_i, temp_files, successful_segments, results, combined_audio,
             stderr, artifact, job_outcome>>

pipelineVars == <<catalogVars, open_sessions, fsVars, jobVars>>

vars == <<pc, parseVars, segments, pipelineVars>>

\* ---------------------------------------------------------------------
\* Values of the pipeline
\* ---------------------------------------------------------------------
Voice(index, engine) == [index |-> index, engine |-> engine]

\* get_voice_by_index's None
NoVoice == [index |-> -1, engine |-> "none"]

\* a call get_voice_by_index(index) and the value it returned
Lookup(index, result) ==
  [called |-> TRUE, index |-> index, result |-> result]

\* a file of TEMP_DIR: segment_<seg>.<ext>
Path(seg, ext) == [seg |-> seg, ext |-> ext]

\* synthesize_segment's None
NoPath == [seg |-> -1, ext |-> "none"]

\* content of a temp file: complete audio or zero bytes; stale when it was
\* written before the current job started
FileContent(kind, stale) == [kind |-> kind, stale |-> stale]

NoFiles == <<>>

NoArtifact == [state |-> "absent", audio |-> <<>>]

\* no call of get_voice_by_index was made on the engine object itself
NoLookup == [called |-> FALSE, index |-> 0, result |-> NoVoice]

\* a line printed to sys.stderr about segment seg (-1: about the job)
Message(msg, seg) == [msg |-> msg, seg |-> seg]

LocalJobVars ==
  /\ seg_i = 0
  /\ temp_files = <<>>
  /\ successful_segments = 0
  /\ results = <<>>
  /\ combined_audio = <<>>
  /\ stderr = <<>>
  /\ artifact = NoArtifact
  /\ job_outcome = "none"

PipelineIdle ==
  /\ unified_voices = <<>>
  /\ pyttsx3_available = FALSE
  /\ init_warnings = {}
  /\ lookup = NoLookup
  /\ open_sessions = 0
  /\ dir_exists = FALSE
  /\ dir_files = NoFiles
  /\ LocalJobVars

\* ---------------------------------------------------------------------
\* parse_input_file as a step machine, one action per branch of its loop
\* ---------------------------------------------------------------------
DocsUpTo(n) == UNION {[1..m -> Alphabet] : m \in 0..n}

InputFiles == {UnreadableFile} \cup {ReadableFile(d) : d \in DocsUpTo(MaxLen)}

DefaultVoices == {0, 1}

InitParse ==
  /\ pc = "parse_open"
  /\ input_file \in InputFiles
  /\ default_voice_index \in DefaultVoices
  /\ parts = <<>>
  /\ parse_i = 1
  /\ current_voice_index = default_voice_index
  /\ segments = <<>>
  /\ PipelineIdle

\* open() raises: return []
ParseOpenFails ==
  /\ pc = "parse_open"
  /\ ~input_file.readable
  /\ pc' = "parse_return"
  /\ UNCHANGED <<parseVars, segments, pipelineVars>>

\* read, normalise, split; segments = [], cursor = default, i = 0
ParseSplit ==
  /\ pc = "parse_open"
  /\ input_file.readable
  /\ parts' = PatternSplit(Normalize(ReadText(input_file.content)))
  /\ segments' = <<>>
  /\ current_voice_index' = default_voice_index
  /\ parse_i' = 1
  /\ pc' = "parse_loop"
  /\ UNCHANGED <<input_file, default_voice_index, pipelineVars>>

InParseLoop == pc = "parse_loop" /\ parse_i <= Len(parts)

CurrentPart == Strip(parts[parse_i])

\* if not part: i += 1; continue
ParseSkipEmpty ==
  /\ InParseLoop
  /\ PartBranch(CurrentPart) = "empty"
  /\ parse_i' = parse_i + 1
  /\ UNCHANGED <<pc, input_file, default_voice_index, parts,
                 current_voice_index, segments, pipelineVars>>

\* the match succeeds and int(part) returns: the cursor moves
ParseVoiceId ==
  /\ InParseLoop
  /\ PartBranch(CurrentPart) = "directive"
  /\ current_voice_index' = IntOfDigits(CurrentPart)
  /\ parse_i' = parse_i + 1
  /\ UNCHANGED <<pc, input_file, default_voice_index, parts, segments,
                 pipelineVars>>

\* the match succeeds and int(part) raises ValueError: the part is skipped
ParseValueError ==
  /\ InParseLoop
  /\ PartBranch(CurrentPart) = "valueerror"
  /\ parse_i' = parse_i + 1
  /\ UNCHANGED <<pc, input_file, default_voice_index, parts,
                 current_voice_index, segments, pipelineVars>>

\* no match: the part is a text segment
ParseText ==
  /\ InParseLoop
  /\ PartBranch(CurrentPart) = "text"
  /\ segments' = Append(segments, Segment(CurrentPart, current_voice_index))
  /\ parse_i' = parse_i + 1
  /\ UNCHANGED <<pc, input_file, default_voice_index, parts,
                 current_voice_index, pipelineVars>>

\* return segments
ParseReturn ==
  /\ pc = "parse_loop"
  /\ parse_i > Len(parts)
  /\ pc' = "parse_return"
  /\ UNCHANGED <<parseVars, segments, pipelineVars>>

NextParse ==
  \/ ParseOpenFails
  \/ ParseSplit
  \/ ParseSkipEmpty
  \/ ParseVoiceId
  \/ ParseValueError
  \/ ParseText
  \/ ParseReturn

SpecParse == InitParse /\ [][NextParse]_vars

\* ---------------------------------------------------------------------
\* UnifiedTTSEngine.__init__: the catalog is built once at start
\* ---------------------------------------------------------------------
\* each backend numbering its own voices from 0
AppendVoicePerEngine(voices, engine) ==
  Append(voices,
         Voice(Cardinality({i \in 1..Len(voices) : voices[i].engine = engine}),
               engine))

\* the append of lines 51-57 and 81-87: the index is the list's length
AppendVoice(voices, engine) == Append(voices, Voice(Len(voices), engine))

RECURSIVE AppendVoices(_, _, _)
AppendVoices(voices, engine, n) ==
  IF n = 0 THEN voices
  ELSE AppendVoices(AppendVoice(voices, engine), engine, n - 1)

\* self.unified_voices[index] with Python's list indexing: a negative index
\* counts from the end, IndexError becomes None
get_voice_by_index(index) ==
  IF 0 <= index /\ index < Len(unified_voices) THEN unified_voices[index + 1]
  ELSE IF index < 0 /\ -index <= Len(unified_voices)
       THEN unified_voices[Len(unified_voices) + index + 1]
       ELSE NoVoice

\* lines 59-60 and 88-89: the warning of a failed enumeration
Warned(warnings, engine, raised) ==
  IF raised THEN warnings \cup {engine} ELSE warnings

\* the engine stopped only when nothing was raised
StopEngineUnlessRaised(sessions, raised) ==
  IF raised THEN sessions ELSE sessions - 1

\* lines 62-65 and 152-155: the finally clause stops the engine whether or
\* not an exception was raised
StopEngine(sessions, raised) == sessions - 1

\* _map_pyttsx3_voices, pyttsx3.init(): it raises (no engine, no voices,
\* the warning, pyttsx3_available False) or it returns the temporary engine
CtorLocalInit ==
  /\ pc = "ctor_local"
  /\ \/ /\ pyttsx3_available' = FALSE
        /\ init_warnings' = Warned(init_warnings, "pyttsx3", TRUE)
        /\ pc' = "ctor_remote"
        /\ UNCHANGED open_sessions
     \/ /\ open_sessions' = open_sessions + 1
        /\ pc' = "ctor_local_voices"
        /\ UNCHANGED <<pyttsx3_available, init_warnings>>
  /\ UNCHANGED <<parseVars, segments, unified_voices, lookup, fsVars, jobVars>>

\* _map_pyttsx3_voices, lines 49-65: n voices are appended, then the loop
\* ends (pyttsx3_available True) or an exception is raised (the warning,
\* pyttsx3_available False); the appended voices stay in the list and the
\* temporary engine is stopped either way
CtorLocalVoices ==
  /\ pc = "ctor_local_voices"
  /\ \E n \in 0..MaxLocal, raised \in BOOLEAN :
       /\ unified_voices' = AppendVoices(unified_voices, "pyttsx3", n)
       /\ pyttsx3_available' = ~raised
       /\ init_warnings' = Warned(init_warnings, "pyttsx3", raised)
       /\ open_sessions' = StopEngine(open_sessions, raised)
  /\ pc' = "ctor_remote"
  /\ UNCHANGED <<parseVars, segments, lookup, fsVars, jobVars>>

\* _map_edge_tts_voices: the listing raises, or n voices are appended and
\* then the loop ends or an exception is raised; an exception is caught
\* with the warning and the appended voices stay in the list
CtorRemoteVoices ==
  /\ pc = "ctor_remote"
  /\ \E n \in 0..MaxRemote, raised \in BOOLEAN :
       /\ unified_voices' = AppendVoices(unified_voices, "edge-tts", n)
       /\ init_warnings' = Warned(init_warnings, "edge-tts", raised)
  /\ pc' = "ctor_check"
  /\ UNCHANGED <<parseVars, segments, pyttsx3_available, lookup,
                 open_sessions, fsVars, jobVars>>

\* the test of line 37 left out
AfterConstructionUnchecked(voices) == "menu"

\* lines 37-41: sys.exit(1) when no voice was found, else main_menu
AfterConstruction(voices) == IF voices = <<>> THEN "exit_fatal" ELSE "menu"

CtorCheck ==
  /\ pc = "ctor_check"
  /\ pc' = AfterConstruction(unified_voices)
  /\ UNCHANGED <<parseVars, segments, pipelineVars>>

\* ---------------------------------------------------------------------
\* main_menu
\* ---------------------------------------------------------------------
\* the documents a job is run on: text "a" under voices 0, 1 and 11
DocSingle == <<"a">>
DocExample == <<"a", "SP", "VOICE=", "1", "SP", "a", "NL", "VOICE=", "0", "SP", "a">>
DocOutOfRange == <<"VOICE=", "1", "1", "SP", "a">>
DocBlank == <<"SP", "NL">>

JobFiles == {UnreadableFile} \cup
  {ReadableFile(d) : d \in {DocSingle, DocExample, DocOutOfRange, DocBlank}}

\* choice 1 (list_voices), an invalid choice, or choice 2 with an empty
\* path: the loop goes round with nothing changed
MenuNoJob ==
  /\ pc = "menu"
  /\ UNCHANGED vars

\* choice 3
MenuExit ==
  /\ pc = "menu"
  /\ pc' = "exited"
  /\ UNCHANGED <<parseVars, segments, pipelineVars>>

\* in TEMP_DIR, every file present when a job starts is stale for that job
MarkStale(files) ==
  [q \in DOMAIN files |-> FileContent(files[q].kind, TRUE)]

\* choice 2 with both paths given: process_and_concatenate, lines 231-245.
\* The output path is one at which no file exists yet.
ProcessStart ==
  /\ pc = "menu"
  /\ \E f \in JobFiles :
       /\ input_file' = f
       /\ segments' = parse_input_file(f, 0)
  /\ IF segments' = <<>>
     THEN /\ pc' = "job_returned"
          /\ job_outcome' = "no_segments"
          /\ UNCHANGED fsVars
     ELSE /\ pc' = "synth"
          /\ job_outcome' = "none"
          /\ dir_exists' = TRUE
          /\ dir_files' = MarkStale(dir_files)
  /\ seg_i' = 0
  /\ temp_files' = <<>>
  /\ successful_segments' = 0
  /\ results' = <<>>
  /\ combined_audio' = <<>>
  /\ stderr' = <<>>
  /\ artifact' = NoArtifact
  /\ UNCHANGED <<default_voice_index, parts, parse_i, current_voice_index,
                 catalogVars, open_sessions>>

\* ---------------------------------------------------------------------
\* The synthesis loop, lines 246-262, and synthesize_segment
\* ---------------------------------------------------------------------
\* the range test left out
ResolveVoiceIndexUnchecked(voice_index) == voice_index

\* the range test one too far: the index len(catalog) passes
ResolveVoiceIndexOffByOne(voice_index) ==
  IF voice_index > Len(unified_voices) THEN 0 ELSE voice_index

\* lines 251-253: an index past the end of the catalog becomes the default
ResolveVoiceIndex(voice_index) ==
  IF voice_index >= Len(unified_voices) THEN 0 ELSE voice_index

\* line 122
Extension(voice) == IF voice.engine = "pyttsx3" THEN "wav" ELSE "mp3"

\* the loop left at the first failed segment
LoopAdvanceStopOnFailure(i, path) ==
  IF path = NoPath THEN Len(segments) ELSE i + 1

\* the loop goes on to the next segment whatever the call returned
LoopAdvance(i, path) == i + 1

\* line 259
AppendTempFile(files, path) == Append(files, path)

InSynthLoop == pc = "synth" /\ seg_i < Len(segments)

CurrentVoiceIndex == ResolveVoiceIndex(segments[seg_i + 1].voice_index)

CurrentVoice == get_voice_by_index(CurrentVoiceIndex)

CurrentPath == Path(seg_i, Extension(CurrentVoice))

SynthResult(voice_index, path) ==
  [segment |-> seg_i, voice_index |-> voice_index, path |-> path]

\* lines 258-262 with the result of the call; printed are the lines the
\* call printed and, for None, the line of the else branch
RecordResult(path, printed) ==
  /\ results' = Append(results, SynthResult(CurrentVoiceIndex, path))
  /\ IF path # NoPath
     THEN /\ temp_files' = AppendTempFile(temp_files, path)
          /\ successful_segments' = successful_segments + 1
          /\ stderr' = stderr \o printed
     ELSE /\ stderr' = stderr \o printed \o <<Message("segment_failed", seg_i)>>
          /\ UNCHANGED <<temp_files, successful_segments>>
  /\ seg_i' = LoopAdvance(seg_i, path)

\* line 252: the warning for an index past the end of the catalog
OutOfRangeWarning ==
  IF segments[seg_i + 1].voice_index >= Len(unified_voices)
  THEN <<Message("out_of_range", seg_i)>> ELSE <<>>

\* lines 150 and 166: the error printed when the backend call raised
SynthError(raised) ==
  IF raised THEN <<Message("synth_error", seg_i)>> ELSE <<>>

\* line 253: the segment keeps the index it was resolved to
StoreResolved ==
  segments' = [segments EXCEPT ![seg_i + 1].voice_index = CurrentVoiceIndex]

\* what a backend call can do to the file at path q: raise or return, having
\* written nothing, complete audio or a zero-byte file
BackendOutcomes(q) ==
  {[raised |-> r, files |-> dir_files] : r \in BOOLEAN}
  \cup {[raised |-> r, files |-> (q :> FileContent("empty", FALSE)) @@ dir_files]
          : r \in BOOLEAN}
  \cup {[raised |-> FALSE, files |-> (q :> FileContent("audio", FALSE)) @@ dir_files]}

\* lines 148 and 164: the path if the file exists, None otherwise or after
\* an exception
ReturnedPath(q, o) ==
  IF ~o.raised /\ q \in DOMAIN o.files THEN q ELSE NoPath

\* lines 116-119 and 131-133: no such voice, or a pyttsx3 voice with the
\* engine unavailable: None is returned and no backend is called
SynthNoBackend ==
  /\ InSynthLoop
  /\ \/ CurrentVoice = NoVoice
     \/ CurrentVoice.engine = "pyttsx3" /\ ~pyttsx3_available
  /\ StoreResolved
  /\ RecordResult(NoPath,
                  OutOfRangeWarning \o
                    <<Message(IF CurrentVoice = NoVoice THEN "voice_not_found"
                              ELSE "pyttsx3_unavailable", seg_i)>>)
  /\ UNCHANGED <<pc, parseVars, catalogVars, open_sessions, fsVars,
                 combined_audio, artifact, job_outcome>>

\* line 138, pyttsx3.init(): it raises and None is returned, or the segment
\* has its engine
SynthLocalInit ==
  /\ InSynthLoop
  /\ CurrentVoice.engine = "pyttsx3" /\ pyttsx3_available
  /\ StoreResolved
  /\ \/ /\ RecordResult(NoPath, OutOfRangeWarning \o SynthError(TRUE))
        /\ UNCHANGED <<pc, open_sessions>>
     \/ /\ open_sessions' = open_sessions + 1
        /\ pc' = "synth_local"
        /\ stderr' = stderr \o OutOfRangeWarning
        /\ UNCHANGED <<seg_i, temp_files, successful_segments, results>>
  /\ UNCHANGED <<parseVars, catalogVars, fsVars, combined_audio, artifact,
                 job_outcome>>

\* lines 139-155: setProperty, save_to_file, runAndWait, the existence test,
\* and the engine stopped in the finally clause
SynthLocalRun ==
  /\ pc = "synth_local"
  /\ \E o \in BackendOutcomes(CurrentPath) :
       /\ dir_files' = o.files
       /\ RecordResult(ReturnedPath(CurrentPath, o), SynthError(o.raised))
       /\ open_sessions' = StopEngine(open_sessions, o.raised)
  /\ pc' = "synth"
  /\ UNCHANGED <<parseVars, segments, catalogVars, dir_exists, combined_audio,
                 artifact, job_outcome>>

\* lines 158-167: asyncio.run of the edge-tts save and the existence test
SynthRemote ==
  /\ InSynthLoop
  /\ CurrentVoice.engine = "edge-tts"
  /\ StoreResolved
  /\ \E o \in BackendOutcomes(CurrentPath) :
       /\ dir_files' = o.files
       /\ RecordResult(ReturnedPath(CurrentPath, o),
                       OutOfRangeWarning \o SynthError(o.raised))
  /\ UNCHANGED <<pc, parseVars, catalogVars, open_sessions, dir_exists,
                 combined_audio, artifact, job_outcome>>

\* ---------------------------------------------------------------------
\* process_and_concatenate after the loop, lines 264-298
\* ---------------------------------------------------------------------
SynthLoopDone == pc = "synth" /\ seg_i >= Len(segments)

\* the test of line 264 left out
NoSegmentSucceededIgnored(n) == FALSE

\* line 264
NoSegmentSucceeded(n) == n = 0

\* lines 264-266: nothing was synthesized, the job returns
AbortNoAudio ==
  /\ SynthLoopDone
  /\ NoSegmentSucceeded(successful_segments)
  /\ pc' = "job_returned"
  /\ job_outcome' = "all_failed"
  /\ stderr' = Append(stderr, Message("no_audio", -1))
  /\ UNCHANGED <<parseVars, segments, catalogVars, open_sessions, fsVars,
                 seg_i, temp_files, successful_segments, results,
                 combined_audio, artifact>>

\* the audio AudioSegment.from_file reads from a temp file: the audio of
\* the segment the file is named after, stale or not
AudioOf(q, content) == [seg |-> q.seg, stale |-> content.stale]

\* the operands of line 276 swapped
AppendAudioInFront(combined, audio) == <<audio>> \o combined

\* line 276 with = for +=
AppendAudioOverwrite(combined, audio) == <<audio>>

\* line 276: combined_audio += segment_audio
AppendAudio(combined, audio) == Append(combined, audio)

\* lines 273-278 from position k on: a file whose load raised is skipped
RECURSIVE ConcatFrom(_, _, _, _, _)
ConcatFrom(paths, files, errors, k, combined) ==
  IF k > Len(paths) THEN combined
  ELSE ConcatFrom(paths, files, errors, k + 1,
                  IF k \in errors THEN combined
                  ELSE AppendAudio(combined, AudioOf(paths[k], files[paths[k]])))

\* line 278: the error printed for every file whose load raised
RECURSIVE LoadErrorsFrom(_, _, _)
LoadErrorsFrom(paths, errors, k) ==
  IF k > Len(paths) THEN <<>>
  ELSE (IF k \in errors THEN <<Message("load_error", paths[k].seg)>> ELSE <<>>)
       \o LoadErrorsFrom(paths, errors, k + 1)

\* a zero-byte file cannot be decoded; the load of any file may raise
\* (no decoder for its format)
MustFailLoad(paths, files) ==
  {k \in 1..Len(paths) : files[paths[k]].kind = "empty"}

\* lines 268-278: the loads that raise are chosen by the environment
Concatenate ==
  /\ SynthLoopDone
  /\ ~NoSegmentSucceeded(successful_segments)
  /\ \E errors \in SUBSET (1..Len(temp_files)) :
       /\ MustFailLoad(temp_files, dir_files) \subseteq errors
       /\ stderr' = stderr \o LoadErrorsFrom(temp_files, errors, 1)
       /\ combined_audio' = ConcatFrom(temp_files, dir_files, errors, 1, <<>>)
  /\ pc' = "export"
  /\ UNCHANGED <<parseVars, segments, catalogVars, open_sessions, fsVars,
                 seg_i, temp_files, successful_segments, results, artifact,
                 job_outcome>>

\* what combined_audio.export writes
Exported(combined) == [state |-> "written", audio |-> combined]

\* lines 280-292: the export writes the file, or raises (caught, FATAL is
\* printed) leaving no file or a partial one.  The format is taken from
\* the extension of output_file, ".wav" when it has none.
Export ==
  /\ pc = "export"
  /\ \/ /\ artifact' = Exported(combined_audio)
        /\ UNCHANGED stderr
     \/ /\ artifact' \in {NoArtifact, [state |-> "partial", audio |-> <<>>]}
        /\ stderr' = Append(stderr, Message("export_fatal", -1))
  /\ pc' = "cleanup"
  /\ UNCHANGED <<parseVars, segments, catalogVars, open_sessions, fsVars,
                 seg_i, temp_files, successful_segments, results,
                 combined_audio, job_outcome>>

\* the files of TEMP_DIR once the first k temp files are removed
RemoveFirst(files, paths, k) ==
  LET gone == {paths[j] : j \in 1..k}
  IN [q \in DOMAIN files \ gone |-> files[q]]

\* lines 294-298: os.remove of every temp file, then os.rmdir.  os.remove
\* may raise at any file and os.rmdir raises when TEMP_DIR is not empty;
\* neither is caught here, so the exception leaves the function.
Cleanup ==
  /\ pc = "cleanup"
  /\ \E k \in 0..Len(temp_files) :
       LET left == RemoveFirst(dir_files, temp_files, k)
       IN /\ dir_files' = left
          /\ IF k = Len(temp_files) /\ DOMAIN left = {}
             THEN /\ dir_exists' = FALSE
                  /\ pc' = "job_returned"
                  /\ job_outcome' = "completed"
             ELSE /\ dir_exists' = dir_exists
                  /\ pc' = "job_raised"
                  /\ job_outcome' = "raised"
  /\ UNCHANGED <<parseVars, segments, catalogVars, open_sessions, seg_i,
                 temp_files, successful_segments, results, combined_audio,
                 stderr, artifact>>

\* an exception of the call not caught: the session ends
AfterJobUncaught(ended) == IF ended = "job_raised" THEN "exited" ELSE "menu"

\* lines 326-329: after the call, and after its exception, the loop of
\* main_menu goes round
AfterJob(ended) == "menu"

\* lines 326-329 and the loop of main_menu: the call returned, or raised
\* and the exception was caught; the menu is shown again and the locals of
\* the call are gone
MenuResume ==
  /\ pc \in {"job_returned", "job_raised"}
  /\ pc' = AfterJob(pc)
  /\ segments' = <<>>
  /\ input_file' = UnreadableFile
  /\ seg_i' = 0
  /\ temp_files' = <<>>
  /\ successful_segments' = 0
  /\ results' = <<>>
  /\ combined_audio' = <<>>
  /\ stderr' = <<>>
  /\ artifact' = NoArtifact
  /\ job_outcome' = "none"
  /\ UNCHANGED <<default_voice_index, parts, parse_i, current_voice_index,
                 catalogVars, open_sessions, fsVars>>

Init ==
  /\ pc = "ctor_local"
  /\ input_file = UnreadableFile
  /\ default_voice_index = 0
  /\ parts = <<>>
  /\ parse_i = 1
  /\ current_voice_index = 0
  /\ segments = <<>>
  /\ PipelineIdle

Next ==
  \/ CtorLocalInit
  \/ CtorLocalVoices
  \/ CtorRemoteVoices
  \/ CtorCheck
  \/ MenuNoJob
  \/ MenuExit
  \/ ProcessStart
  \/ SynthNoBackend
  \/ SynthLocalInit
  \/ SynthLocalRun
  \/ SynthRemote
  \/ AbortNoAudio
  \/ Concatenate
  \/ Export
  \/ Cleanup
  \/ MenuResume

Spec == Init /\ [][Next]_vars

\* ---------------------------------------------------------------------
\* get_voice_by_index called on the constructed engine with any index
\* ---------------------------------------------------------------------
LookupIndices == (0 - MaxIndex)..MaxIndex

\* engine.get_voice_by_index(index), lines 91-96
GetVoiceByIndex ==
  /\ pc = "menu"
  /\ \E index \in LookupIndices :
       lookup' = Lookup(index, get_voice_by_index(index))
  /\ UNCHANGED <<pc, parseVars, segments, unified_voices, pyttsx3_available,
                 init_warnings, open_sessions, fsVars, jobVars>>

NextLookup ==
  \/ CtorLocalInit
  \/ CtorLocalVoices
  \/ CtorRemoteVoices
  \/ CtorCheck
  \/ GetVoiceByIndex

SpecLookup == Init /\ [][NextLookup]_vars

\* ---------------------------------------------------------------------
\* Properties of parse_input_file (specification SpecParse)
\* ---------------------------------------------------------------------
\* the split puts text chunks at the odd positions and the digits of the
\* directives at the even ones (1-based)
IsTextPosition(k) == k % 2 = 1

TextChunkCount(ps) ==
  Cardinality({k \in 1..Len(ps) : IsTextPosition(k) /\ Strip(ps[k]) # <<>>})

\* the voice selected by the directives among the first k - 1 parts
RECURSIVE CursorBefore(_, _, _)
CursorBefore(ps, k, default) ==
  IF k <= 1 THEN default
  ELSE IF ~IsTextPosition(k - 1) THEN IntOfDigits(ps[k - 1])
       ELSE CursorBefore(ps, k - 1, default)

\* the segments of the non-empty text chunks among the first k - 1 parts,
\* each under the voice selected before it
RECURSIVE ChunkSegmentsBefore(_, _, _)
ChunkSegmentsBefore(ps, k, default) ==
  IF k <= 1 THEN <<>>
  ELSE LET before == ChunkSegmentsBefore(ps, k - 1, default)
           text == Strip(ps[k - 1])
       IN IF IsTextPosition(k - 1) /\ text # <<>>
          THEN Append(before, Segment(text, CursorBefore(ps, k - 1, default)))
          ELSE before

\* C1: the number of segments parse_input_file returns is the number of
\* non-empty text chunks of the split document, a chunk that starts with a
\* digit included.
C1_SegmentCountIsChunkCount ==
  (pc = "parse_return" /\ input_file.readable)
    => Len(segments)
         = TextChunkCount(PatternSplit(Normalize(ReadText(input_file.content))))

\* C2: during the scan the cursor is the default until the first directive
\* and afterwards the id of the last directive scanned, and the segments
\* emitted are the text chunks scanned so far, in order, each under the
\* voice of the directive before it.
C2_CursorFollowsDirectives ==
  pc \in {"parse_loop", "parse_return"}
    => /\ current_voice_index = CursorBefore(parts, parse_i, default_voice_index)
       /\ segments = ChunkSegmentsBefore(parts, parse_i, default_voice_index)

\* ---------------------------------------------------------------------
\* Properties of the pipeline (specification Spec)
\* ---------------------------------------------------------------------
Succeeded(r) == r.path # NoPath

\* the line was printed to sys.stderr during the current job
Printed(msg, seg) == \E k \in 1..Len(stderr) : stderr[k] = Message(msg, seg)

\* no load of a temp file raised during the current job
EveryLoadSucceeded == \A k \in 1..Len(stderr) : stderr[k].msg # "load_error"

SucceededResults == SelectSeq(results, Succeeded)

\* the synthesis loop of the current job has ended
LoopOver ==
  \/ pc \in {"export", "cleanup", "job_raised"}
  \/ SynthLoopDone
  \/ pc = "job_returned" /\ job_outcome # "no_segments"

\* C3: every segment is attempted once, in document order, whatever the
\* earlier attempts returned: while the loop runs there is one result per
\* segment before position i, and when it has ended one per segment; the
\* k-th result is segment k's, the successes counted are the results with
\* a path, and the failure line is printed for the others.
C3_EverySegmentAttemptedOnce ==
  /\ \A k \in 1..Len(results) :
       /\ results[k].segment = k - 1
       /\ Succeeded(results[k]) <=> ~Printed("segment_failed", k - 1)
  /\ pc \in {"synth", "synth_local"} => Len(results) = seg_i
  /\ LoopOver => Len(results) = Len(segments)
  /\ successful_segments = Len(SucceededResults)
  /\ Len(temp_files) = successful_segments

\* a segment failed and a later one was still attempted, and succeeded
C3_Witness ==
  /\ pc = "export"
  /\ Len(results) = 3
  /\ ~Succeeded(results[1])
  /\ ~Succeeded(results[2])
  /\ Succeeded(results[3])

\* C4: the audio appended by the assembler is in segment order: of two
\* pieces of the exported audio, the earlier one is of the earlier segment.
C4_AssemblyKeepsSegmentOrder ==
  /\ \A a, b \in 1..Len(combined_audio) :
       a < b => combined_audio[a].seg < combined_audio[b].seg
  /\ \A a, b \in 1..Len(artifact.audio) :
       a < b => artifact.audio[a].seg < artifact.audio[b].seg

\* segments 0 and 2 are in the exported audio and segment 1 failed
C4_Witness ==
  /\ artifact.state = "written"
  /\ Len(results) = 3
  /\ ~Succeeded(results[2])
  /\ Len(artifact.audio) = 2
  /\ artifact.audio[1].seg = 0
  /\ artifact.audio[2].seg = 2

RECURSIVE SegmentsOf(_)
SegmentsOf(seq) ==
  IF seq = <<>> THEN <<>> ELSE <<seq[1].seg>> \o SegmentsOf(Tail(seq))

RECURSIVE SegmentsOfResults(_)
SegmentsOfResults(seq) ==
  IF seq = <<>> THEN <<>> ELSE <<seq[1].segment>> \o SegmentsOfResults(Tail(seq))

\* the segments of the paths from position k on whose load did not raise
RECURSIVE LoadedSegments(_, _)
LoadedSegments(paths, k) ==
  IF k > Len(paths) THEN <<>>
  ELSE (IF Printed("load_error", paths[k].seg) THEN <<>> ELSE <<paths[k].seg>>)
       \o LoadedSegments(paths, k + 1)

\* every temp file of the job holds complete audio
EveryTempFileIsAudio ==
  \A k \in 1..Len(temp_files) :
    /\ temp_files[k] \in DOMAIN dir_files
    /\ dir_files[temp_files[k]].kind = "audio"

C6_AllFailedWritesNothing ==
  /\ job_outcome = "all_failed"
       => /\ pc = "job_returned"
          /\ artifact = NoArtifact
          /\ SucceededResults = <<>>
  /\ (pc \in {"export", "cleanup"} \/ artifact # NoArtifact
        \/ job_outcome \in {"completed", "raised"})
       => SucceededResults # <<>>
  /\ (SynthLoopDone /\ SucceededResults # <<>>)
       => ENABLED Concatenate /\ ~ENABLED AbortNoAudio
  /\ (SynthLoopDone /\ SucceededResults = <<>>)
       => ENABLED AbortNoAudio /\ ~ENABLED Concatenate

\* three segments, all failed
C6_Witness ==
  /\ job_outcome = "all_failed"
  /\ Len(results) = 3

\* the voice index the parser gave segment k of the current job
ParsedVoiceIndex(k) == parse_input_file(input_file, 0)[k].voice_index

\* C7: a segment whose parsed voice index is past the end of the catalog is
\* synthesized under the default index 0, with the warning printed, and has
\* a result; an index inside the catalog is used as parsed, with no warning.
C7_OutOfRangeUsesDefault ==
  /\ LoopOver => Len(results) = Len(parse_input_file(input_file, 0))
  /\ \A k \in 1..Len(results) :
       /\ ParsedVoiceIndex(k) >= Len(unified_voices)
            => /\ results[k].voice_index = 0
               /\ segments[k].voice_index = 0
               /\ Printed("out_of_range", k - 1)
       /\ ParsedVoiceIndex(k) < Len(unified_voices)
            => /\ results[k].voice_index = ParsedVoiceIndex(k)
               /\ ~Printed("out_of_range", k - 1)

\* a segment parsed with voice 11 was synthesized, with success
C7_Witness ==
  /\ Len(results) = 1
  /\ ParsedVoiceIndex(1) = 11
  /\ results[1].voice_index = 0
  /\ Succeeded(results[1])
  /\ stderr = <<Message("out_of_range", 0)>>

\* the positions of the catalog that hold a voice of the engine
VoicesOf(engine) ==
  {i \in 1..Len(unified_voices) : unified_voices[i].engine = engine}

\* every voice of the catalog comes from an enumeration that went through
\* without its warning
WholeEnumerations == \A engine \in init_warnings : VoicesOf(engine) = {}

\* the call of process_and_concatenate has returned or raised
JobOver == pc \in {"job_returned", "job_raised"}

\* C8: when the export fails, the audio files of the segments are still
\* there after process_and_concatenate has returned (stated for the jobs
\* in which every temp file was loaded, over a catalog of whole
\* enumerations).
C8_ExportFailureKeepsSegmentAudio ==
  (JobOver /\ Printed("export_fatal", -1) /\ EveryLoadSucceeded
     /\ WholeEnumerations)
    => \A k \in 1..Len(temp_files) : temp_files[k] \in DOMAIN dir_files

\* C9: when the export succeeded, a failing cleanup step does not make
\* process_and_concatenate end with an exception (stated for the jobs in
\* which every temp file was loaded, over a catalog of whole enumerations).
C9_CleanupFailureIsWarning ==
  (JobOver /\ artifact.state = "written" /\ EveryLoadSucceeded
     /\ WholeEnumerations)
    => pc = "job_returned"

\* C10: a segment whose backend call left a zero-byte file is not counted
\* as succeeded: every path handed to the assembler names complete audio
\* (stated over a catalog of whole enumerations).
C10_EmptyOutputIsFailure ==
  (pc \in {"synth", "synth_local", "export", "cleanup"} /\ WholeEnumerations)
    => \A k \in 1..Len(temp_files) : dir_files[temp_files[k]].kind # "empty"

\* the enumeration of the local backend is over
LocalEnumerated == pc \notin {"ctor_local", "ctor_local_voices"}

\* both enumerations are over
Constructed ==
  pc \notin {"ctor_local", "ctor_local_voices", "ctor_remote"}

\* C11: a backend whose enumeration failed, at any point, has its warning
\* printed and no voice in the catalog; whenever pyttsx3_available is False
\* after the enumeration, the catalog holds no pyttsx3 voice.
C11_FailedBackendContributesNothing ==
  /\ LocalEnumerated
       => /\ ~pyttsx3_available <=> "pyttsx3" \in init_warnings
          /\ ~pyttsx3_available => VoicesOf("pyttsx3") = {}
  /\ Constructed
       => ("edge-tts" \in init_warnings => VoicesOf("edge-tts") = {})

\* neither backend has a voice in the catalog
NoBackendHasVoice == VoicesOf("pyttsx3") = {} /\ VoicesOf("edge-tts") = {}

\* no document was parsed and no segment synthesized
NothingProcessed ==
  /\ LocalJobVars
  /\ ~dir_exists
  /\ dir_files = NoFiles
  /\ segments = <<>>
  /\ parts = <<>>
  /\ ~input_file.readable

\* C12: the constructor ends in the fatal exit exactly when neither backend
\* has a voice in the catalog; the process then stops with no document
\* parsed and no segment synthesized. With a voice from either backend the
\* program goes on to the menu with a non-empty catalog.
C12_FatalExactlyWhenNoVoice ==
  /\ pc = "exit_fatal"
       => NoBackendHasVoice /\ NothingProcessed /\ ~ENABLED Next
  /\ (Constructed /\ pc \notin {"ctor_check", "exit_fatal"})
       => ~NoBackendHasVoice /\ unified_voices # <<>>

\* the fatal exit after both enumerations failed
C12_Witness ==
  /\ pc = "exit_fatal"
  /\ init_warnings = {"pyttsx3", "edge-tts"}

\* the voice at position i of the list has index i, counted from 0
DenseIndices ==
  \A i \in 1..Len(unified_voices) : unified_voices[i].index = i - 1

\* the voices of pyttsx3 come before the voices of edge-tts
LocalVoicesFirst ==
  \A i \in VoicesOf("pyttsx3") : \A j \in VoicesOf("edge-tts") : i < j

\* C13: at every moment the indices of the catalog are the positions
\* 0, 1, 2, ... of its voices, the local voices first and the remote ones
\* after them, and once both enumerations are over no step adds, removes
\* or changes an entry.
C13_CatalogDenseAndFrozen ==
  /\ [](DenseIndices /\ LocalVoicesFirst)
  /\ [][Constructed => unified_voices' = unified_voices]_vars

\* a job has run over a catalog with a voice of each backend
C13_Witness ==
  /\ pc = "job_returned"
  /\ unified_voices = <<Voice(0, "pyttsx3"), Voice(1, "edge-tts")>>
  /\ artifact.state = "written"

\* the indices of the catalog
ValidIndices == 0..(Len(unified_voices) - 1)

\* C14: get_voice_by_index returns None for every index outside
\* 0..len(catalog)-1, the negative ones as well as those past the end, and
\* for an index inside that range the voice whose index is the argument
\* (stated over a catalog of whole enumerations).
C14_LookupIsBoundsChecked ==
  (lookup.called /\ WholeEnumerations)
    => /\ lookup.index \in ValidIndices
            => /\ lookup.result # NoVoice
               /\ lookup.result.index = lookup.index
       /\ lookup.index \notin ValidIndices => lookup.result = NoVoice

\* C15: when a job has ended, whatever its outcome (no audio at all, a
\* failed export, an exception out of process_and_concatenate), the next
\* step of the session is the return to the menu, where a new job or Exit
\* can be chosen; the session ends from the menu only.
C15_FatalOutcomeEndsOnlyTheJob ==
  /\ [](JobOver => ENABLED MenuResume)
  /\ [](pc = "menu" => ENABLED ProcessStart /\ ENABLED MenuExit)
  /\ [][/\ JobOver => pc' = "menu"
        /\ pc' = "exited" => pc = "menu"]_vars

\* back at the menu after a job that left its temp directory behind
C15_Witness ==
  /\ pc = "menu"
  /\ dir_exists
  /\ Path(0, "mp3") \in DOMAIN dir_files

\* between pyttsx3.init() and the finally clause: of the enumeration, of a
\* local synthesis call
HoldsEngine == pc \in {"ctor_local_voices", "synth_local"}

\* C16: an engine session is open only between the pyttsx3.init() of one
\* enumeration or one local synthesis call and the end of that same call,
\* whichever way the call ends: never more than one at a time, none when
\* synthesize_segment has returned, none carried from a segment to the next.
C16_SessionReleasedOnEveryPath ==
  /\ open_sessions \in {0, 1}
  /\ open_sessions = 1 <=> HoldsEngine

\* a local synthesis call of the second segment has raised after writing
\* its file, and no session is open
C16_Witness ==
  /\ pc = "synth"
  /\ Len(results) = 2
  /\ results[1].path = Path(0, "wav")
  /\ ~Succeeded(results[2])
  /\ Path(1, "wav") \in DOMAIN dir_files
  /\ ~dir_files[Path(1, "wav")].stale
  /\ Printed("synth_error", 1)
  /\ open_sessions = 0

\* the part holds a "/voice=" that the split did not take as a directive:
\* one with no digit after it
HoldsMalformedDirective(part) ==
  \E k \in 1..Len(part) : part[k] = "VOICE="

\* C17: the step of the parser over a part that holds a malformed directive
\* leaves the voice cursor as it is and emits the part, the literal
\* "/voice=" in it, as the text of a segment under that cursor.
C17_MalformedDirectiveStaysText ==
  [][(InParseLoop /\ HoldsMalformedDirective(parts[parse_i]))
       => /\ current_voice_index' = current_voice_index
          /\ segments' =
               Append(segments, Segment(CurrentPart, current_voice_index))]_vars

\* C18: the index handed to synthesize_segment for the segment at hand, and
\* the index every earlier segment was synthesized under, lies in
\* 0..len(catalog)-1 and names the voice at that position, so no job prints
\* 'Voice ID not found'.
C18_ResolvedIndexIsInCatalog ==
  /\ (InSynthLoop \/ pc = "synth_local")
       => /\ CurrentVoiceIndex \in ValidIndices
          /\ CurrentVoice = unified_voices[CurrentVoiceIndex + 1]
  /\ \A k \in 1..Len(results) : results[k].voice_index \in ValidIndices
  /\ \A k \in 1..Len(stderr) : stderr[k].msg # "voice_not_found"

\* on a catalog of one voice the second segment, parsed under voice 1, was
\* synthesized under voice 0, and the third is at hand
C18_Witness ==
  /\ InSynthLoop
  /\ Len(unified_voices) = 1
  /\ Len(results) = 2
  /\ ParsedVoiceIndex(2) = 1
  /\ results[2].voice_index = 0
  /\ Succeeded(results[2])

\* process_and_concatenate has returned from a run that created TEMP_DIR
ReturnedAfterMakedirs ==
  pc = "job_returned" /\ job_outcome \in {"all_failed", "completed"}

\* C19: when a run of process_and_concatenate that created TEMP_DIR returns,
\* on whichever terminal path, TEMP_DIR and every file in it are gone
\* (stated over a catalog of whole enumerations).
C19_ReturnLeavesNoTempState ==
  (ReturnedAfterMakedirs /\ WholeEnumerations)
    => ~dir_exists /\ dir_files = NoFiles

====
